---------------------------- MODULE Spec2Model ----------------------------
(***************************************************************************)
(* Model of bot/yagpt_service.py: the class YandexGPTConfigManagerBase,    *)
(* a holder of four optional configuration values (model_type, catalog_id, *)
(* iam_token, api_key) with three read-only properties that validate and   *)
(* format them on every access.                                            *)
(*                                                                         *)
(* Python values are modelled by tagged records: None is                   *)
(* [type |-> "NoneType"], a str is [type |-> "str", s |-> <the text>].    *)
(* The outcome of a call is either Return(value) or Raise(exc, msg).       *)
(***************************************************************************)
EXTENDS Naturals, Sequences, FiniteSets, TLC

VARIABLES
    self,              \* the long-lived object: its four attributes
    available_models,  \* the module-level list of supported model types
    call,              \* the most recent operation performed by the client
    ret,               \* the most recent call on self and its outcome
    other,             \* a second, freshly constructed object (or NoObject)
    other_ret          \* the outcome of the one property read on `other`

vars == <<self, available_models, call, ret, other, other_ret>>

---------------------------------------------------------------------------
(* Python values and outcomes *)

None == [type |-> "NoneType"]

Str(s) == [type |-> "str", s |-> s]

Return(v) == [kind |-> "return", value |-> v]

Raise(exc, msg) == [kind |-> "raise", exc |-> exc, msg |-> msg]

\* Truth value testing, as `if v:` does it for an Optional[str]
bool(v) == v # None /\ v.s # ""

\* What an f-string replacement field {v} renders for an Optional[str]
format(v) == IF v = None THEN "None" ELSE v.s

\* repr() of a str without quotes or escapes in it
repr(v) == "'" \o v.s \o "'"

RECURSIVE join(_)
\* ", ".join(repr(x) for x in list)
join(list) ==
    IF list = <<>> THEN ""
    ELSE IF Len(list) = 1 THEN repr(Head(list))
    ELSE repr(Head(list)) \o ", " \o join(Tail(list))

\* What an f-string replacement field {list} renders for a List[str]
format_list(list) == "[" \o join(list) \o "]"

\* `v in list`: equality with some element
In(v, list) == \E n \in 1..Len(list) : list[n] = v

---------------------------------------------------------------------------
(* Bounds and the inputs drawn within them *)

\* The number of distinct non-empty sample strings drawn for each attribute
MaxSamples == 1

IamTokenPool == <<"t1.9euelZq", " ", "None">>

ApiKeyPool == <<"AQVN-key", "t1.9euelZq", "0">>

CatalogPool == <<"cat123", "b1g/x", "None">>

UnsupportedPool == <<"unknown", "YandexGPT", "None">>

Samples(pool) == {Str(pool[n]) : n \in 1..MaxSamples}

IamTokens == {None, Str("")} \cup Samples(IamTokenPool)

ApiKeys == {None, Str("")} \cup Samples(ApiKeyPool)

CatalogIds == {None, Str("")} \cup Samples(CatalogPool)

ModelTypes ==
    {None, Str(""), Str("yandexgpt"), Str("yandexgpt-lite"), Str("summarization")}
        \cup Samples(UnsupportedPool)

AttrNames == {"model_type", "catalog_id", "iam_token", "api_key"}

AttrValues(name) ==
    CASE name = "model_type" -> ModelTypes
      [] name = "catalog_id" -> CatalogIds
      [] name = "iam_token" -> IamTokens
      [] name = "api_key" -> ApiKeys

---------------------------------------------------------------------------
(* The class *)

\* available_models: List[str] = [...]
available_models_initial ==
    <<Str("yandexgpt"), Str("yandexgpt-lite"), Str("summarization")>>

\* Variant of __init__ that validates model_type eagerly
init_validating(model_type, catalog_id, iam_token, api_key) ==
    IF ~In(model_type, available_models_initial)
    THEN [out |-> Raise("ValueError", "Model type is not supported"),
          self |-> [type |-> "unbound"]]
    ELSE [out |-> Return(None),
          self |-> [model_type |-> model_type,
                    catalog_id |-> catalog_id,
                    iam_token |-> iam_token,
                    api_key |-> api_key]]

\* __init__: four assignments, no check; returns None
YandexGPTConfigManagerBase(model_type, catalog_id, iam_token, api_key) ==
    [out |-> Return(None),
     self |-> [model_type |-> model_type,
               catalog_id |-> catalog_id,
               iam_token |-> iam_token,
               api_key |-> api_key]]

\* Variant of the authorization property that tests api_key first
authorization_field_api_key_first(obj) ==
    IF bool(obj.api_key)
    THEN Return(Str("Api-Key " \o format(obj.api_key)))
    ELSE IF bool(obj.iam_token)
    THEN Return(Str("Bearer " \o format(obj.iam_token)))
    ELSE Raise("ValueError", "IAM token or API key is not set")

\* Variant of the authorization property that tests `iam_token is not None`
authorization_field_iam_token_is_not_None(obj) ==
    IF obj.iam_token # None
    THEN Return(Str("Bearer " \o format(obj.iam_token)))
    ELSE IF bool(obj.api_key)
    THEN Return(Str("Api-Key " \o format(obj.api_key)))
    ELSE Raise("ValueError", "IAM token or API key is not set")

\* Variant of the authorization property that tests `api_key is not None`
authorization_field_api_key_is_not_None(obj) ==
    IF bool(obj.iam_token)
    THEN Return(Str("Bearer " \o format(obj.iam_token)))
    ELSE IF obj.api_key # None
    THEN Return(Str("Api-Key " \o format(obj.api_key)))
    ELSE Raise("ValueError", "IAM token or API key is not set")

\* Variant of the authorization property that insists on a catalog id too
authorization_field_needs_catalog_id(obj) ==
    IF ~bool(obj.catalog_id)
    THEN Raise("ValueError", "Catalog ID is not set")
    ELSE IF bool(obj.iam_token)
    THEN Return(Str("Bearer " \o format(obj.iam_token)))
    ELSE IF bool(obj.api_key)
    THEN Return(Str("Api-Key " \o format(obj.api_key)))
    ELSE Raise("ValueError", "IAM token or API key is not set")

\* @property completion_request_authorization_field
completion_request_authorization_field(obj) ==
    IF bool(obj.iam_token)
    THEN Return(Str("Bearer " \o format(obj.iam_token)))
    ELSE IF bool(obj.api_key)
    THEN Return(Str("Api-Key " \o format(obj.api_key)))
    ELSE Raise("ValueError", "IAM token or API key is not set")

\* Variant of the catalog id property that tests `catalog_id is not None`
catalog_id_field_is_not_None(obj) ==
    IF obj.catalog_id # None
    THEN Return(obj.catalog_id)
    ELSE Raise("ValueError", "Catalog ID is not set")

\* @property completion_request_catalog_id_field
completion_request_catalog_id_field(obj) ==
    IF bool(obj.catalog_id)
    THEN Return(obj.catalog_id)
    ELSE Raise("ValueError", "Catalog ID is not set")

\* Variant of the model URI property with its two checks in the other order
model_type_uri_field_set_check_first(obj) ==
    IF ~(bool(obj.model_type) /\ bool(obj.catalog_id))
    THEN Raise("ValueError", "Model type or catalog ID is not set")
    ELSE IF ~In(obj.model_type, available_models)
    THEN Raise("ValueError",
               "Model type " \o format(obj.model_type)
                   \o " is not supported. Supported values: "
                   \o format_list(available_models))
    ELSE Return(Str("gpt://" \o format(obj.catalog_id) \o "/"
                        \o format(obj.model_type) \o "/latest"))

\* Variant of the model URI property without its second check
model_type_uri_field_no_set_check(obj) ==
    IF ~In(obj.model_type, available_models)
    THEN Raise("ValueError",
               "Model type " \o format(obj.model_type)
                   \o " is not supported. Supported values: "
                   \o format_list(available_models))
    ELSE Return(Str("gpt://" \o format(obj.catalog_id) \o "/"
                        \o format(obj.model_type) \o "/latest"))

\* @property completion_request_model_type_uri_field
completion_request_model_type_uri_field(obj) ==
    IF ~In(obj.model_type, available_models)
    THEN Raise("ValueError",
               "Model type " \o format(obj.model_type)
                   \o " is not supported. Supported values: "
                   \o format_list(available_models))
    ELSE IF bool(obj.model_type) /\ bool(obj.catalog_id)
    THEN Return(Str("gpt://" \o format(obj.catalog_id) \o "/"
                        \o format(obj.model_type) \o "/latest"))
    ELSE Raise("ValueError", "Model type or catalog ID is not set")

Properties == {"authorization", "catalog_id", "model_type_uri"}

\* getattr(obj, "completion_request_<name>_field")
getattr(obj, name) ==
    CASE name = "authorization" -> completion_request_authorization_field(obj)
      [] name = "catalog_id" -> completion_request_catalog_id_field(obj)
      [] name = "model_type_uri" -> completion_request_model_type_uri_field(obj)

---------------------------------------------------------------------------
(* The state machine: one client, one long-lived object *)

NoObject == [type |-> "unbound"]

NoCall == [op |-> "none"]

\* self = YandexGPTConfigManagerBase(m, c, i, k): the state after construction.
\* Were __init__ to raise, the name self would stay unbound.
Init ==
    /\ \E m \in ModelTypes, c \in CatalogIds, i \in IamTokens, k \in ApiKeys :
          LET r == YandexGPTConfigManagerBase(m, c, i, k) IN
          /\ self = IF r.out.kind = "return" THEN r.self ELSE NoObject
          /\ call = [op |-> "init", args |-> <<m, c, i, k>>]
          /\ ret = [op |-> "init", out |-> r.out]
    /\ available_models = available_models_initial
    /\ other = NoObject
    /\ other_ret = NoCall

\* self.<name> = v, by the client
SetAttr(name, v) ==
    /\ self # NoObject
    /\ self' = [self EXCEPT ![name] = v]
    /\ call' = [op |-> "setattr", name |-> name, value |-> v]
    /\ other' = NoObject
    /\ other_ret' = NoCall
    /\ UNCHANGED <<available_models, ret>>

\* Variant of the authorization read that normalises a falsy iam_token to None
ReadAuthorizationField_normalising ==
    /\ self # NoObject
    /\ ret' = [op |-> "authorization",
               out |-> completion_request_authorization_field(self)]
    /\ self' = [self EXCEPT !.iam_token = IF bool(@) THEN @ ELSE None]
    /\ call' = [op |-> "authorization"]
    /\ other' = NoObject
    /\ other_ret' = NoCall
    /\ UNCHANGED available_models

\* self.completion_request_authorization_field
ReadAuthorizationField ==
    /\ self # NoObject
    /\ ret' = [op |-> "authorization",
               out |-> completion_request_authorization_field(self)]
    /\ call' = [op |-> "authorization"]
    /\ other' = NoObject
    /\ other_ret' = NoCall
    /\ UNCHANGED <<self, available_models>>

\* Variant of the catalog id read that keeps the first outcome it computed
ReadCatalogIdField_cached ==
    /\ self # NoObject
    /\ ret' = [op |-> "catalog_id",
               out |-> IF ret.op = "catalog_id" THEN ret.out
                       ELSE completion_request_catalog_id_field(self)]
    /\ call' = [op |-> "catalog_id"]
    /\ other' = NoObject
    /\ other_ret' = NoCall
    /\ UNCHANGED <<self, available_models>>

\* self.completion_request_catalog_id_field
ReadCatalogIdField ==
    /\ self # NoObject
    /\ ret' = [op |-> "catalog_id",
               out |-> completion_request_catalog_id_field(self)]
    /\ call' = [op |-> "catalog_id"]
    /\ other' = NoObject
    /\ other_ret' = NoCall
    /\ UNCHANGED <<self, available_models>>

\* self.completion_request_model_type_uri_field
ReadModelTypeUriField ==
    /\ self # NoObject
    /\ ret' = [op |-> "model_type_uri",
               out |-> completion_request_model_type_uri_field(self)]
    /\ call' = [op |-> "model_type_uri"]
    /\ other' = NoObject
    /\ other_ret' = NoCall
    /\ UNCHANGED <<self, available_models>>

\* Right after a property read on self: a second object is constructed from
\* self's current values with one argument replaced by v, and the same
\* property is read on it, once. Objects that differ from self in several
\* attributes are reached through a chain of such single replacements.
ReadOnOther(name, v) ==
    /\ self # NoObject
    /\ call.op \in Properties
    /\ LET a == [self EXCEPT ![name] = v]
           r == YandexGPTConfigManagerBase(a.model_type, a.catalog_id,
                                           a.iam_token, a.api_key)
       IN
       /\ r.out.kind = "return"
       /\ other' = r.self
       /\ other_ret' = [op |-> call.op, out |-> getattr(r.self, call.op)]
    /\ UNCHANGED <<self, available_models, call, ret>>

Next ==
    \/ \E name \in AttrNames : \E v \in AttrValues(name) : SetAttr(name, v)
    \/ ReadAuthorizationField
    \/ ReadCatalogIdField
    \/ ReadModelTypeUriField
    \/ \E name \in AttrNames : \E v \in AttrValues(name) : ReadOnOther(name, v)

Spec == Init /\ [][Next]_vars

---------------------------------------------------------------------------
(* Vocabulary of the properties *)

\* An attribute that is unset (None) or the empty string
Unset(v) == v = None \/ v = Str("")

\* An attribute that is a non-empty string
NonEmpty(v) == v # None /\ v # Str("")

\* The supported model types
AllowList == {Str("yandexgpt"), Str("yandexgpt-lite"), Str("summarization")}

\* The call failed with a configuration error, which the code raises as ValueError
Fails(out) == out.kind = "raise" /\ out.exc = "ValueError"

\* How an error message shows an attribute value
Shown(v) == IF v = None THEN "None" ELSE v.s

\* The attributes each property is documented to depend on
Deps(p) ==
    CASE p = "authorization" -> {"iam_token", "api_key"}
      [] p = "catalog_id" -> {"catalog_id"}
      [] p = "model_type_uri" -> {"model_type", "catalog_id"}

\* The configurations in which each property is documented to succeed
Valid(p, obj) ==
    CASE p = "authorization" -> NonEmpty(obj.iam_token) \/ NonEmpty(obj.api_key)
      [] p = "catalog_id" -> NonEmpty(obj.catalog_id)
      [] p = "model_type_uri" ->
            obj.model_type \in AllowList /\ NonEmpty(obj.catalog_id)

---------------------------------------------------------------------------
(* Properties *)

\* C1: whenever iam_token is a non-empty string, the authorization field read
\* returns exactly "Bearer " + iam_token, whatever api_key holds (unset, empty
\* or non-empty): iam_token takes precedence.
C1_BearerTakesPrecedence ==
    (call.op = "authorization" /\ NonEmpty(self.iam_token)) =>
        ret = [op |-> "authorization",
               out |-> Return(Str("Bearer " \o self.iam_token.s))]

\* Reached: both credentials set, and the read returned the bearer form.
C1_Witness ==
    /\ call.op = "authorization"
    /\ NonEmpty(self.iam_token)
    /\ NonEmpty(self.api_key)
    /\ ret.out = Return(Str("Bearer t1.9euelZq"))

\* C2: whenever iam_token is None or "" and api_key is a non-empty string, the
\* authorization field read returns exactly "Api-Key " + api_key.
C2_ApiKeyWhenNoIamToken ==
    (call.op = "authorization" /\ Unset(self.iam_token) /\ NonEmpty(self.api_key)) =>
        ret = [op |-> "authorization",
               out |-> Return(Str("Api-Key " \o self.api_key.s))]

\* Reached: iam_token is the empty string, and the read returned the key form.
C2_Witness ==
    /\ call.op = "authorization"
    /\ self.iam_token = Str("")
    /\ ret.out = Return(Str("Api-Key AQVN-key"))

\* C3: whenever both iam_token and api_key are None or "", the authorization
\* field read fails with the configuration error and returns no string.
C3_NoCredentialFails ==
    (call.op = "authorization" /\ Unset(self.iam_token) /\ Unset(self.api_key)) =>
        /\ ret.op = "authorization"
        /\ Fails(ret.out)

\* Reached: iam_token is None, api_key is the empty string, and the read failed.
C3_Witness ==
    /\ call.op = "authorization"
    /\ self.iam_token = None
    /\ self.api_key = Str("")
    /\ Fails(ret.out)

\* C4: the catalog id field read fails with the configuration error exactly
\* when catalog_id is None or ""; otherwise it returns catalog_id verbatim.
C4_CatalogIdField ==
    call.op = "catalog_id" =>
        /\ ret.op = "catalog_id"
        /\ Fails(ret.out) <=> Unset(self.catalog_id)
        /\ ~Unset(self.catalog_id) => ret.out = Return(self.catalog_id)

\* Reached: catalog_id is the empty string, and the read failed.
C4_Witness ==
    /\ call.op = "catalog_id"
    /\ self.catalog_id = Str("")
    /\ Fails(ret.out)

\* C5: whenever model_type is None, "" or any other value outside the allow-list,
\* the model URI field read fails with the configuration error, whatever
\* catalog_id holds, and the error is the one that reports the model_type value
\* and the allow-list, not the "not set" one.
C5_UnsupportedModelType ==
    (call.op = "model_type_uri" /\ self.model_type \notin AllowList) =>
        /\ ret.op = "model_type_uri"
        /\ Fails(ret.out)
        /\ ret.out.msg =
              "Model type " \o Shown(self.model_type)
                  \o " is not supported. Supported values: "
                  \o "['yandexgpt', 'yandexgpt-lite', 'summarization']"
        /\ ret.out.msg # "Model type or catalog ID is not set"

\* Reached: model_type and catalog_id are both None, and the read failed with
\* the unsupported-model error.
C5_Witness ==
    /\ call.op = "model_type_uri"
    /\ self.model_type = None
    /\ self.catalog_id = None
    /\ Fails(ret.out)
    /\ ret.out.msg # "Model type or catalog ID is not set"

\* C6: whenever model_type is in the allow-list, the model URI field read returns
\* exactly "gpt://" + catalog_id + "/" + model_type + "/latest" if catalog_id is
\* a non-empty string and fails with the configuration error if catalog_id is
\* None or ""; no URI is ever returned for an unset catalog_id or for a
\* model_type outside the allow-list.
C6_ModelUri ==
    call.op = "model_type_uri" =>
        /\ ret.op = "model_type_uri"
        /\ (self.model_type \in AllowList /\ NonEmpty(self.catalog_id)) =>
              ret.out = Return(Str("gpt://" \o self.catalog_id.s \o "/"
                                       \o self.model_type.s \o "/latest"))
        /\ (self.model_type \in AllowList /\ Unset(self.catalog_id)) =>
              Fails(ret.out)
        /\ ret.out.kind = "return" =>
              (self.model_type \in AllowList /\ NonEmpty(self.catalog_id))

\* Reached: the documented scenario, "gpt://cat123/yandexgpt/latest".
C6_Witness ==
    /\ call.op = "model_type_uri"
    /\ self.model_type = Str("yandexgpt")
    /\ ret.out = Return(Str("gpt://cat123/yandexgpt/latest"))

\* C7: nothing is cached. After any sequence of assignments and reads, a read on
\* the long-lived object gives the outcome the same read gives on an object
\* freshly constructed from the current four values; a read that failed
\* succeeds on the next read once an assignment has made the configuration
\* valid, and a read that succeeded fails once an assignment has made it invalid.
C7_NoCaching ==
    [][/\ (other' # NoObject /\ other' = self') => other_ret' = ret'
       /\ \A p \in Properties :
            (ret.op = p /\ call.op = "setattr" /\ call'.op = p) =>
                /\ (Fails(ret.out) /\ Valid(p, self)) => ret'.out.kind = "return"
                /\ (ret.out.kind = "return" /\ ~Valid(p, self)) => Fails(ret'.out)
      ]_vars

\* Reached: the catalog id read on the long-lived object and the same read on
\* a fresh object constructed from its current values both returned "cat123".
C7_Witness ==
    /\ other # NoObject
    /\ other = self
    /\ other_ret = ret
    /\ ret = [op |-> "catalog_id", out |-> Return(Str("cat123"))]

\* C8: construction never fails and stores its four arguments verbatim, whatever
\* they are; an error is only ever the outcome of a later property read.
C8_ConstructStoresVerbatim ==
    /\ call.op = "init" =>
          /\ ret = [op |-> "init", out |-> Return(None)]
          /\ self = [model_type |-> call.args[1],
                     catalog_id |-> call.args[2],
                     iam_token |-> call.args[3],
                     api_key |-> call.args[4]]
    /\ ret.out.kind = "raise" => ret.op \in Properties

\* Reached: an object just constructed with an unsupported model_type, an empty
\* catalog_id and no credential.
C8_Witness ==
    /\ call.op = "init"
    /\ ret.out.kind = "return"
    /\ self # NoObject
    /\ self.model_type = Str("unknown")
    /\ self.catalog_id = Str("")
    /\ self.iam_token = None
    /\ self.api_key = None

\* C9: a property read, whether it returns or fails, leaves the four attributes
\* and the allow-list as they were; an attribute changes only by an assignment,
\* and then only the assigned attribute, to the assigned value.
C9_ReadsChangeNothing ==
    [][/\ call'.op \in Properties =>
             (self' = self /\ available_models' = available_models)
       /\ self' # self =>
             /\ call'.op = "setattr"
             /\ self' = [self EXCEPT ![call'.name] = call'.value]
       /\ available_models' = available_models
      ]_vars

\* Reached: a failed read of the model URI with the rejected values still held.
C9_Witness ==
    /\ call.op = "model_type_uri"
    /\ Fails(ret.out)
    /\ self.model_type = Str("unknown")
    /\ self.catalog_id = Str("cat123")
    /\ self.iam_token = Str("")

\* C10: the three properties are validated independently. Two objects that agree
\* on the attributes a property depends on give the same outcome for it; the
\* authorization field succeeds with a valid credential, the catalog id field
\* with a non-empty catalog_id, and the model URI field with a supported
\* model_type and a non-empty catalog_id, whatever the other attributes hold.
C10_IndependentValidation ==
    /\ (other # NoObject /\ \A f \in Deps(other_ret.op) : other[f] = self[f]) =>
          other_ret = ret
    /\ \A p \in Properties :
          (call.op = p /\ Valid(p, self)) => ret.out.kind = "return"

\* Reached: the authorization field returned on two objects with the same
\* credentials, one with an unsupported model_type and an unset catalog_id, the
\* other differing from it in catalog_id.
C10_Witness ==
    /\ other # NoObject
    /\ other_ret.op = "authorization"
    /\ other_ret = ret
    /\ ret.out.kind = "return"
    /\ self.model_type = Str("unknown")
    /\ self.catalog_id = None
    /\ other.catalog_id = Str("cat123")

===========================================================================
